---- MODULE Spec2Model ----
(***************************************************************************)
(* A model of the REST API test harness: the retry utility and the schema  *)
(* validator of utils/test-utils.js, the configuration resolver of         *)
(* config/config.js, the HttpClient wrapper of http/HttpClient.js and the  *)
(* FluentAssertions engine.                                                *)
(***************************************************************************)
EXTENDS Integers, Sequences, FiniteSets, TLC

\* retry       the state of each retryWithBackoff call: its arguments, its
\*             attempt counter, where it is suspended, the invocations of fn
\*             and the waits so far, and how it settled
\* config      the config object of config/config.js
\* processEnv  process.env
\* resolved    the last getEnvironmentConfig call: its arguments, the object
\*             it returned as it is now, and whether a caller wrote to it
\* currentEnv  the last getCurrentEnvironment call: its result
\* clients     the HttpClient instances: this.config and this.client.defaults
\* inflight    the requests handed to the transport and not yet answered
\* settled     how the promise of each answered call settled
\* log         the calls made to this.logger, in order
\* nOps        the number of client operations so far
\* lastOp      the last client operation, its argument, and the defaults of
\*             the instance before it (history, for stating the claims)
\* auth        per instance, the last of setAuthorization / clearAuthorization
\*             and whether setDefaultHeaders has since written Authorization
\*             (history, for stating the claims)
\* validation  one validateResponseSchema call: its response data, its
\*             schema and, once called, what it returned or that it threw
\* chain       one assertion chain started by expectResponse: the value the
\*             next member is taken from, the snapshot, whether the chain
\*             has raised, and the last check made (history)
VARIABLES retry, config, processEnv, resolved, currentEnv,
          clients, inflight, settled, log, nOps, lastOp, auth,
          validation, chain

vars == <<retry, config, processEnv, resolved, currentEnv,
          clients, inflight, settled, log, nOps, lastOp, auth,
          validation, chain>>

retryVars == <<retry>>
configVars == <<config, processEnv, resolved, currentEnv>>
clientVars == <<clients, inflight, settled, log, nOps, lastOp, auth>>
checkVars == <<validation, chain>>

(***************************************************************************)
(* JavaScript object helpers.  An object is a function from its own        *)
(* enumerable property names to values.                                    *)
(***************************************************************************)
EmptyObj == <<>>

\* { ...a, ...b }: the own properties of a, then those of b over them.
JsSpread(a, b) ==
  [k \in (DOMAIN a) \cup (DOMAIN b) |-> IF k \in DOMAIN b THEN b[k] ELSE a[k]]

\* Property names every plain object inherits from Object.prototype; the
\* values are functions (or the prototype itself), all truthy, none with own
\* enumerable properties.
ObjectPrototypeKeys ==
  {"constructor", "toString", "valueOf", "hasOwnProperty", "__proto__"}

\* obj[key] on a plain object: an own property, else an inherited member of
\* Object.prototype, else undefined.
JsGet(obj, key) ==
  IF key \in DOMAIN obj THEN [defined |-> TRUE, value |-> obj[key]]
  ELSE IF key \in ObjectPrototypeKeys THEN [defined |-> TRUE, value |-> EmptyObj]
  ELSE [defined |-> FALSE]

(***************************************************************************)
(* utils/test-utils.js: delay and retryWithBackoff                         *)
(***************************************************************************)
\* Bounds of the retry model.
MaxAttemptsBound == 3
RetryCalls == {1, 2}

Values == {"v1", "v2"}
Errors == {"e1", "e2"}
DelayInputs == {0, 100}

\* The positional arguments after fn: (), (maxAttempts) or
\* (maxAttempts, initialDelay).
RetryArgs ==
  {<<>>} \cup {<<m>> : m \in -1..MaxAttemptsBound}
         \cup {<<m, d>> : m \in 0..MaxAttemptsBound, d \in DelayInputs}

DefaultMaxAttempts == 3
DefaultInitialDelay == 1000

RECURSIVE Pow2(_)
Pow2(n) == IF n <= 0 THEN 1 ELSE 2 * Pow2(n - 1)

\* delayMs with the exponent one too large.
delayMsOneTooLarge(initialDelay, attempt) == initialDelay * Pow2(attempt)

\* const delayMs = initialDelay * Math.pow(2, attempt - 1)
delayMs(initialDelay, attempt) == initialDelay * Pow2(attempt - 1)

IdleCall ==
  [pc |-> "idle", maxAttempts |-> 0, initialDelay |-> 0, attempt |-> 0,
   events |-> <<>>, result |-> [kind |-> "none"]]

\* LoopTest with the bound tested one short.
LoopTestOneShort(r) ==
  IF r.attempt < r.maxAttempts
    THEN [r EXCEPT !.pc = "fn"]
    ELSE [r EXCEPT !.pc = "resolved", !.result = [kind |-> "undefined"]]

\* The test of the while loop, entered at the start and after each delay.
LoopTest(r) ==
  IF r.attempt <= r.maxAttempts
    THEN [r EXCEPT !.pc = "fn"]
    ELSE [r EXCEPT !.pc = "resolved", !.result = [kind |-> "undefined"]]

\* retryWithBackoff with the attempt counter started at 0.
retryWithBackoffFromZero(c, args) ==
  /\ retry[c].pc = "idle"
  /\ retry' = [retry EXCEPT ![c] =
       LoopTest([IdleCall EXCEPT
         !.maxAttempts = IF Len(args) >= 1 THEN args[1] ELSE DefaultMaxAttempts,
         !.initialDelay = IF Len(args) >= 2 THEN args[2] ELSE DefaultInitialDelay,
         !.attempt = 0])]
  /\ UNCHANGED <<configVars, clientVars, checkVars>>

\* retryWithBackoff(fn, ...args) is called: defaults applied, attempt = 1.
retryWithBackoff(c, args) ==
  /\ retry[c].pc = "idle"
  /\ retry' = [retry EXCEPT ![c] =
       LoopTest([IdleCall EXCEPT
         !.maxAttempts = IF Len(args) >= 1 THEN args[1] ELSE DefaultMaxAttempts,
         !.initialDelay = IF Len(args) >= 2 THEN args[2] ELSE DefaultInitialDelay,
         !.attempt = 1])]
  /\ UNCHANGED <<configVars, clientVars, checkVars>>

\* await fn() fulfils with v: return it.
FnSucceeds(c, v) ==
  /\ retry[c].pc = "fn"
  /\ retry' = [retry EXCEPT ![c] =
       [@ EXCEPT !.pc = "resolved",
                 !.events = Append(@, [kind |-> "invoke", ok |-> TRUE, val |-> v]),
                 !.result = [kind |-> "value", val |-> v]]]
  /\ UNCHANGED <<configVars, clientVars, checkVars>>

\* ThrownError rethrowing the error of the first attempt.
ThrownErrorFirst(r, error) ==
  SelectSeq(r.events, LAMBDA e : e.kind = "invoke" /\ ~e.ok)[1].val

\* The catch block: which error of the invocations so far is rethrown.
ThrownError(r, error) == error

\* await fn() rejects with error e: rethrow on the last attempt, else start
\* the backoff delay.
FnFails(c, e) ==
  /\ retry[c].pc = "fn"
  /\ LET r == retry[c]
         ev == Append(r.events, [kind |-> "invoke", ok |-> FALSE, val |-> e])
     IN retry' = [retry EXCEPT ![c] =
          IF r.attempt = r.maxAttempts
            THEN [r EXCEPT !.pc = "rejected", !.events = ev,
                           !.result = [kind |-> "error",
                                       val |-> ThrownError([r EXCEPT !.events = ev], e)]]
            ELSE [r EXCEPT !.pc = "delay",
                           !.events = Append(ev,
                              [kind |-> "wait", ok |-> TRUE,
                               val |-> delayMs(r.initialDelay, r.attempt)])]]
  /\ UNCHANGED <<configVars, clientVars, checkVars>>

\* delay with one attempt counter for all the calls.
delayShared(c) ==
  /\ retry[c].pc = "delay"
  /\ retry' = [k \in RetryCalls |->
       IF k = c THEN LoopTest([retry[k] EXCEPT !.attempt = @ + 1])
       ELSE [retry[k] EXCEPT !.attempt = @ + 1]]
  /\ UNCHANGED <<configVars, clientVars, checkVars>>

\* The timer of delay(ms) fires: attempt++ and back to the loop test.
delay(c) ==
  /\ retry[c].pc = "delay"
  /\ retry' = [retry EXCEPT ![c] = LoopTest([@ EXCEPT !.attempt = @ + 1])]
  /\ UNCHANGED <<configVars, clientVars, checkVars>>

Invocations(c) == SelectSeq(retry[c].events, LAMBDA e : e.kind = "invoke")
Waits(c) == SelectSeq(retry[c].events, LAMBDA e : e.kind = "wait")

(***************************************************************************)
(* config/config.js: config, getEnvironmentConfig, getCurrentEnvironment   *)
(***************************************************************************)
ConfiguredEnvironments == {"development", "staging", "production"}

DefaultBaseUrl == "https://jsonplaceholder.typicode.com"
StagingBaseUrl == "https://jsonplaceholder-staging.typicode.com"

\* config.headers as written in the source.
ConfigHeaders ==
  ("Content-Type" :> "application/json") @@ ("Accept" :> "application/json")
    @@ ("User-Agent" :> "ModularTestFramework/1.0.0")

BaseTimeout == 10000
DevelopmentTimeout == 15000
StagingTimeout == 10000
ProductionTimeout == 5000

RetryAttempts == 3
RetryDelay == 1000

\* Header maps the base config is tried with: the source's and two variants.
BaseHeaderChoices ==
  { ConfigHeaders,
    ("Accept" :> "application/json"),
    ConfigHeaders @@ ("Authorization" :> "Basic from-config") }

\* Header maps an environment override is tried with; the source's overrides
\* have no headers property at all.
EnvHeaderChoices ==
  { [has |-> FALSE],
    [has |-> TRUE, map |-> EmptyObj],
    [has |-> TRUE, map |-> ("Accept" :> "text/html")],
    [has |-> TRUE, map |-> ("Accept" :> "text/html") @@ ("X-Env" :> "override")] }

EnvOverride(baseUrl, timeout, h) ==
  IF h.has THEN [baseUrl |-> baseUrl, timeout |-> timeout, headers |-> h.map]
           ELSE [baseUrl |-> baseUrl, timeout |-> timeout]

\* The config object with the given header maps.
Config(baseHeaders, devHeaders, stagingHeaders) ==
  [baseUrl |-> DefaultBaseUrl,
   headers |-> baseHeaders,
   timeout |-> BaseTimeout,
   retry |-> [attempts |-> RetryAttempts, delay |-> RetryDelay],
   environments |->
     [development |-> EnvOverride(DefaultBaseUrl, DevelopmentTimeout, devHeaders),
      staging |-> EnvOverride(StagingBaseUrl, StagingTimeout, stagingHeaders),
      production |-> EnvOverride(DefaultBaseUrl, ProductionTimeout, [has |-> FALSE])]]

\* The config object exactly as the source writes it.
SourceConfig == Config(ConfigHeaders, [has |-> FALSE], [has |-> FALSE])

\* envConfig.headers, spread: an absent (undefined) headers adds nothing.
EnvHeaders(envConfig) ==
  IF "headers" \in DOMAIN envConfig THEN envConfig.headers ELSE EmptyObj

\* MergedHeaders with the base headers winning.
MergedHeadersBaseWins(cfg, envConfig) == JsSpread(EnvHeaders(envConfig), cfg.headers)

\* headers: { ...config.headers, ...envConfig.headers }
MergedHeaders(cfg, envConfig) == JsSpread(cfg.headers, EnvHeaders(envConfig))

\* const envConfig = config.environments[environment]
\*                   || config.environments.development
SelectEnvConfig(cfg, environment) ==
  LET found == JsGet(cfg.environments, environment)
  IN IF found.defined THEN found.value ELSE cfg.environments.development

\* getEnvironmentConfig with the environment spread under the base config.
getEnvironmentConfigBaseOver(cfg, args) ==
  LET environment == IF Len(args) >= 1 THEN args[1] ELSE "development"
      envConfig == SelectEnvConfig(cfg, environment)
  IN JsSpread(JsSpread(envConfig, cfg),
              [headers |-> MergedHeaders(cfg, envConfig)])

\* getEnvironmentConfig(environment = 'development')
getEnvironmentConfig(cfg, args) ==
  LET environment == IF Len(args) >= 1 THEN args[1] ELSE "development"
      envConfig == SelectEnvConfig(cfg, environment)
  IN JsSpread(JsSpread(cfg, envConfig),
              [headers |-> MergedHeaders(cfg, envConfig)])

\* process.env: a variable that is unset is absent from the map.
EnvVar(env, name) ==
  IF name \in DOMAIN env /\ env[name] # "" THEN [truthy |-> TRUE, value |-> env[name]]
  ELSE [truthy |-> FALSE]

\* process.env.NODE_ENV || process.env.TEST_ENV || 'development'
getCurrentEnvironment(env) ==
  IF EnvVar(env, "NODE_ENV").truthy THEN EnvVar(env, "NODE_ENV").value
  ELSE IF EnvVar(env, "TEST_ENV").truthy THEN EnvVar(env, "TEST_ENV").value
  ELSE "development"

\* Environment names the callers pass.
EnvironmentInputs ==
  ConfiguredEnvironments \cup {"test", "qa", "constructor", "toString"}

ConfigArgs == {<<>>} \cup {<<e>> : e \in EnvironmentInputs}

ProcessEnvs ==
  { EmptyObj,
    [NODE_ENV |-> "staging"], [NODE_ENV |-> "production"], [NODE_ENV |-> "test"],
    [TEST_ENV |-> "staging"],
    [NODE_ENV |-> "", TEST_ENV |-> "production"],
    [NODE_ENV |-> "production", TEST_ENV |-> "staging"] }

\* A caller resolves a configuration.
ResolveConfig(args) ==
  /\ resolved' = [called |-> TRUE, args |-> args,
                  result |-> getEnvironmentConfig(config, args),
                  mutated |-> FALSE]
  /\ UNCHANGED <<retry, config, processEnv, currentEnv, clientVars, checkVars>>

\* A caller assigns to a field of the configuration it was returned:
\* result.timeout = v, result.headers.Accept = v or result.retry.attempts = v.
\* The returned object and its headers are objects built by the call.  Its
\* retry is the value the spread copied from config.retry, which is a
\* reference to the same object unless the environment overrides retry, so
\* the assignment is seen through config.retry as well.
MutateResult(path, v) ==
  /\ resolved.called
  /\ LET environment == IF Len(resolved.args) >= 1 THEN resolved.args[1]
                        ELSE "development"
         shared == "retry" \notin DOMAIN SelectEnvConfig(config, environment)
     IN /\ resolved' =
             [resolved EXCEPT
                !.mutated = TRUE,
                !.result = CASE path = "timeout" -> [@ EXCEPT !.timeout = v]
                             [] path = "headers" -> [@ EXCEPT !.headers =
                                  JsSpread(@, [k \in {"Accept"} |-> v])]
                             [] path = "retry" -> [@ EXCEPT !.retry.attempts = v]]
        /\ config' = IF path = "retry" /\ shared
                       THEN [config EXCEPT !.retry.attempts = v]
                       ELSE config
  /\ UNCHANGED <<retry, processEnv, currentEnv, clientVars, checkVars>>

\* A caller asks for the current environment name.
CurrentEnvironment ==
  /\ currentEnv' = [called |-> TRUE, result |-> getCurrentEnvironment(processEnv)]
  /\ UNCHANGED <<retry, config, processEnv, resolved, clientVars, checkVars>>

(***************************************************************************)
(* http/HttpClient.js: HttpClient over an axios instance                   *)
(***************************************************************************)
\* Bound on the number of operations (calls, setters, transport answers).
MaxOps == 3

ClientIds == {1, 2}

\* The common default headers a fresh axios instance starts with.
AxiosDefaultCommon == ("Accept" :> "application/json, text/plain, */*")

OtherBaseUrl == "https://api.example.test"

\* The config argument of the constructor: omitted (null) or an explicit
\* configuration object.
ClientConfigArgs ==
  { [given |-> FALSE],
    [given |-> TRUE,
     config |-> [baseUrl |-> OtherBaseUrl, timeout |-> 3000,
                 headers |-> ("Authorization" :> "Basic from-config")]] }

\* constructor(config = null, logger = null): this.config and the defaults of
\* axios.create({baseURL, timeout, headers}).  The headers given to create
\* sit beside the common group of the instance's default headers.
HttpClient(cfgArg) ==
  LET cfg == IF cfgArg.given THEN cfgArg.config
             ELSE getEnvironmentConfig(config, <<>>)
  IN [config |-> cfg,
      defaults |-> [baseURL |-> cfg.baseUrl,
                    timeout |-> cfg.timeout,
                    headers |-> [common |-> AxiosDefaultCommon,
                                 own |-> cfg.headers]]]

Methods == {"get", "post", "put", "patch", "delete", "head", "options"}

Url == "/posts/1"

\* The per-call config objects the callers pass ({} when omitted).
CallConfigs ==
  { EmptyObj,
    [headers |-> ("X-Custom-Header" :> "test-value") @@ ("X-Request-ID" :> "12345")],
    [headers |-> ("Authorization" :> "Basic per-call")] }

CallHeaders(callConfig) ==
  IF "headers" \in DOMAIN callConfig THEN callConfig.headers ELSE EmptyObj

\* RequestHeaders leaving out the common defaults.
RequestHeadersNoCommon(defaults, callConfig) ==
  JsSpread(defaults.headers.own, CallHeaders(callConfig))

\* The headers of one request: the common defaults, the instance's own
\* default headers over them, the call's headers over both.
RequestHeaders(defaults, callConfig) ==
  JsSpread(JsSpread(defaults.headers.common, defaults.headers.own),
           CallHeaders(callConfig))

\* The request the axios instance builds for one call; the defaults are read,
\* not written.
BuildRequest(id, c, method, callConfig) ==
  [id |-> id, client |-> c, method |-> method, url |-> Url,
   baseURL |-> clients[c].defaults.baseURL,
   timeout |-> clients[c].defaults.timeout,
   headers |-> RequestHeaders(clients[c].defaults, callConfig)]

\* DefaultsAfterCall with the call's headers written into the common defaults.
DefaultsAfterCallMerged(defaults, callConfig) ==
  [defaults EXCEPT !.headers.common = JsSpread(@, CallHeaders(callConfig))]

\* The defaults of the instance after a call was made with callConfig.
DefaultsAfterCall(defaults, callConfig) == defaults

Op(name, c, arg) ==
  [op |-> name, client |-> c, arg |-> arg, before |-> clients[c].defaults]

\* this.client.<method>(url, [data,] config): the request interceptor logs
\* the request, which is then handed to the transport.
Request(c, method, callConfig) ==
  /\ nOps < MaxOps
  /\ LET req == BuildRequest(nOps + 1, c, method, callConfig)
     IN /\ inflight' = inflight \cup {req}
        /\ log' = Append(log, [level |-> "debug", event |-> "request", call |-> req.id])
        /\ lastOp' = [Op(method, c, callConfig) EXCEPT !.arg = [config |-> callConfig, request |-> req]]
  /\ clients' = [clients EXCEPT ![c].defaults = DefaultsAfterCall(@, callConfig)]
  /\ nOps' = nOps + 1
  /\ UNCHANGED <<retryVars, configVars, checkVars, settled, auth>>

get(c, callConfig) == Request(c, "get", callConfig)
post(c, callConfig) == Request(c, "post", callConfig)
put(c, callConfig) == Request(c, "put", callConfig)
patch(c, callConfig) == Request(c, "patch", callConfig)
delete(c, callConfig) == Request(c, "delete", callConfig)
head(c, callConfig) == Request(c, "head", callConfig)
options(c, callConfig) == Request(c, "options", callConfig)

\* What the transport answers: a response with or without data, an HTTP
\* error status, or a failure without a response.
TransportOutcomes ==
  { [kind |-> "response", status |-> 200, data |-> "object"],
    [kind |-> "response", status |-> 200, data |-> "undefined"],
    [kind |-> "error", status |-> 404, code |-> "ERR_BAD_REQUEST"],
    [kind |-> "error", status |-> 0, code |-> "ECONNABORTED"] }

\* Settle turning a reported error into a fulfilled result.
SettleSwallowingErrors(outcome) ==
  IF outcome.kind = "response" /\ outcome.data # "undefined"
    THEN [state |-> "fulfilled", value |-> outcome, level |-> "debug"]
  ELSE IF outcome.kind = "response"
    THEN [state |-> "rejected", value |-> [kind |-> "TypeError"], level |-> "none"]
  ELSE [state |-> "fulfilled", value |-> outcome, level |-> "error"]

\* The response interceptor: how the call settles and at which level the
\* interceptor logs.  On a response it computes
\* JSON.stringify(response.data).length before logging, which throws a
\* TypeError when data is undefined; on an error it logs and rejects with
\* the same error.
Settle(outcome) ==
  IF outcome.kind = "response" /\ outcome.data # "undefined"
    THEN [state |-> "fulfilled", value |-> outcome, level |-> "debug"]
  ELSE IF outcome.kind = "response"
    THEN [state |-> "rejected", value |-> [kind |-> "TypeError"], level |-> "none"]
  ELSE [state |-> "rejected", value |-> outcome, level |-> "error"]

\* The transport answers a request once; the response interceptor runs and
\* the promise of the call settles.
TransportResponds(req, outcome) ==
  /\ nOps < MaxOps
  /\ req \in inflight
  /\ inflight' = inflight \ {req}
  /\ LET s == Settle(outcome)
     IN /\ log' = IF s.level = "none" THEN log
                  ELSE Append(log, [level |-> s.level, event |-> "response", call |-> req.id])
        /\ settled' = settled \cup {[id |-> req.id, state |-> s.state, value |-> s.value]}
  /\ lastOp' = Op("transport", req.client, [request |-> req, outcome |-> outcome])
  /\ nOps' = nOps + 1
  /\ UNCHANGED <<retryVars, configVars, checkVars, clients, auth>>

\* ObjectAssign replacing the target by the source.
ObjectAssignReplace(target, source) == source

\* Object.assign(target, source)
ObjectAssign(target, source) == JsSpread(target, source)

HeaderArgs ==
  { ("X-Custom-Header" :> "test-value"),
    ("Accept" :> "text/html") @@ ("Authorization" :> "Token from-headers") }

\* setDefaultHeaders(headers)
setDefaultHeaders(c, headers) ==
  /\ nOps < MaxOps
  /\ clients' = [clients EXCEPT ![c].defaults.headers.common = ObjectAssign(@, headers)]
  /\ log' = Append(log, [level |-> "debug", event |-> "Updated default headers", call |-> 0])
  /\ lastOp' = Op("setDefaultHeaders", c, headers)
  /\ auth' = [auth EXCEPT ![c].overwritten = @ \/ "Authorization" \in DOMAIN headers]
  /\ nOps' = nOps + 1
  /\ UNCHANGED <<retryVars, configVars, checkVars, inflight, settled>>

AuthArgs == {<<"fake-token">>, <<"fake-token", "Basic">>}

AuthType(args) == IF Len(args) >= 2 THEN args[2] ELSE "Bearer"

\* AuthorizationValue without the type.
AuthorizationValueTokenOnly(type, token) == token

\* `${type} ${token}`
AuthorizationValue(type, token) == type \o " " \o token

\* setAuthorization writing a common header group shared by all instances.
setAuthorizationShared(c, args) ==
  /\ nOps < MaxOps
  /\ clients' = [b \in ClientIds |-> [clients[b] EXCEPT !.defaults.headers.common =
        JsSpread(@, [Authorization |-> AuthorizationValue(AuthType(args), args[1])])]]
  /\ log' = Append(log, [level |-> "debug", event |-> "Set authorization header", call |-> 0])
  /\ lastOp' = Op("setAuthorization", c, args)
  /\ auth' = [auth EXCEPT ![c] = [kind |-> "set", token |-> args[1],
                                  type |-> AuthType(args), overwritten |-> FALSE]]
  /\ nOps' = nOps + 1
  /\ UNCHANGED <<retryVars, configVars, checkVars, inflight, settled>>

\* setAuthorization(token, type = 'Bearer')
setAuthorization(c, args) ==
  /\ nOps < MaxOps
  /\ clients' = [clients EXCEPT ![c].defaults.headers.common =
        JsSpread(@, [Authorization |-> AuthorizationValue(AuthType(args), args[1])])]
  /\ log' = Append(log, [level |-> "debug", event |-> "Set authorization header", call |-> 0])
  /\ lastOp' = Op("setAuthorization", c, args)
  /\ auth' = [auth EXCEPT ![c] = [kind |-> "set", token |-> args[1],
                                  type |-> AuthType(args), overwritten |-> FALSE]]
  /\ nOps' = nOps + 1
  /\ UNCHANGED <<retryVars, configVars, checkVars, inflight, settled>>

\* delete obj[key]
JsDelete(obj, key) == [k \in (DOMAIN obj) \ {key} |-> obj[k]]

\* clearAuthorization()
clearAuthorization(c) ==
  /\ nOps < MaxOps
  /\ clients' = [clients EXCEPT ![c].defaults.headers.common = JsDelete(@, "Authorization")]
  /\ log' = Append(log, [level |-> "debug", event |-> "Cleared authorization header", call |-> 0])
  /\ lastOp' = Op("clearAuthorization", c, <<>>)
  /\ auth' = [auth EXCEPT ![c] = [kind |-> "cleared", token |-> "", type |-> "",
                                  overwritten |-> FALSE]]
  /\ nOps' = nOps + 1
  /\ UNCHANGED <<retryVars, configVars, checkVars, inflight, settled>>

\* setBaseUrl(baseUrl)
setBaseUrl(c, baseUrl) ==
  /\ nOps < MaxOps
  /\ clients' = [clients EXCEPT ![c].defaults.baseURL = baseUrl]
  /\ log' = Append(log, [level |-> "debug", event |-> "Updated base URL", call |-> 0])
  /\ lastOp' = Op("setBaseUrl", c, baseUrl)
  /\ nOps' = nOps + 1
  /\ UNCHANGED <<retryVars, configVars, checkVars, inflight, settled, auth>>

\* getConfig()
getConfig(c) ==
  [baseUrl |-> clients[c].defaults.baseURL,
   timeout |-> clients[c].defaults.timeout,
   headers |-> clients[c].defaults.headers.common]

(***************************************************************************)
(* JavaScript values, as the validator and the assertions inspect them     *)
(***************************************************************************)
\* A value carries its kind in t and its content, if any, in a field of its
\* kind: a number, a string, a sequence of elements, or a function from own
\* keys to values.
JsUndefined == [t |-> "undefined"]
JsNull == [t |-> "null"]
JsFunction == [t |-> "function"]
JsNum(n) == [t |-> "number", num |-> n]
JsStr(s) == [t |-> "string", str |-> s]
JsArr(elements) == [t |-> "array", items |-> elements]
JsObj(properties) == [t |-> "object", props |-> properties]

\* An object literal whose key order matters (a schema): its entries in
\* insertion order, which is the order for...in and Object.keys enumerate.
JsLiteral(entries) == [t |-> "object", entries |-> entries]
Entry(key, value) == [key |-> key, value |-> value]

IsStr(x, s) == x.t = "string" /\ x.str = s

\* typeof x
TypeOf(x) == IF x.t \in {"null", "array", "object"} THEN "object" ELSE x.t

\* The decimal property names of the first indices.
IndexKeys == <<"0", "1", "2", "3", "4", "5">>

\* The position (from 1) an index key names, 0 for any other key.
IndexOf(key) ==
  IF \E i \in DOMAIN IndexKeys : IndexKeys[i] = key
    THEN CHOOSE i \in DOMAIN IndexKeys : IndexKeys[i] = key
    ELSE 0

\* The characters of a string: of the type names and of the one-character
\* strings the data holds; the empty string has none.
Chars(s) ==
  CASE s \in {"x", "t", "1"} -> <<s>>
    [] s = "object" -> <<"o", "b", "j", "e", "c", "t">>
    [] s = "number" -> <<"n", "u", "m", "b", "e", "r">>
    [] s = "string" -> <<"s", "t", "r", "i", "n", "g">>
    [] s = "array" -> <<"a", "r", "r", "a", "y">>
    [] OTHER -> <<>>

\* `key in x` raises a TypeError unless x is an object (arrays and functions
\* included).
InThrows(x) == x.t \notin {"object", "array", "function"}

\* `key in x` for an object or an array: own and inherited properties.
JsHas(x, key) ==
  \/ key \in ObjectPrototypeKeys
  \/ x.t = "object" /\ key \in DOMAIN x.props
  \/ x.t = "array" /\ (key = "length" \/ IndexOf(key) \in 1..Len(x.items))

\* `key in Object(x)` for any x but null and undefined: a string has its
\* length and its indices, any other primitive only what it inherits.
HasProperty(x, key) ==
  \/ key \in ObjectPrototypeKeys
  \/ x.t = "object" /\ key \in DOMAIN x.props
  \/ x.t = "array" /\ (key = "length" \/ IndexOf(key) \in 1..Len(x.items))
  \/ x.t = "string" /\ (key = "length" \/ IndexOf(key) \in 1..Len(Chars(x.str)))

\* x[key] for x an object, an array or a string.
JsProp(x, key) ==
  IF x.t = "object" /\ key \in DOMAIN x.props THEN x.props[key]
  ELSE IF x.t = "array" /\ IndexOf(key) \in 1..Len(x.items) THEN x.items[IndexOf(key)]
  ELSE IF x.t = "array" /\ key = "length" THEN JsNum(Len(x.items))
  ELSE IF x.t = "string" /\ key = "length" THEN JsNum(Len(Chars(x.str)))
  ELSE IF x.t = "string" /\ IndexOf(key) \in 1..Len(Chars(x.str))
    THEN JsStr(Chars(x.str)[IndexOf(key)])
  ELSE IF key \in ObjectPrototypeKeys THEN JsFunction
  ELSE JsUndefined

\* The keys and values for...in enumerates: the entries of an object literal,
\* the indices and characters of a string, nothing for null or undefined.
ForIn(x) ==
  IF x.t = "object" THEN x.entries
  ELSE IF x.t = "string"
    THEN [i \in 1..Len(Chars(x.str)) |-> Entry(IndexKeys[i], JsStr(Chars(x.str)[i]))]
  ELSE <<>>

\* `${x}` for a type name or for an object literal.
TemplateString(x) == IF x.t = "string" THEN x.str ELSE "[object Object]"

(***************************************************************************)
(* validateResponseSchema                                                  *)
(***************************************************************************)
\* validateObject(obj, schemaObj, path): the walk over the keys for...in
\* enumerates in schemaObj, from the i-th on, appending to errors.  The walk
\* ends with the errors collected, or with threw when `key in obj` raised.
RECURSIVE validateObject(_, _, _, _)
RECURSIVE ValidateFrom(_, _, _, _, _)
ValidateFrom(obj, entries, i, path, errors) ==
  IF i > Len(entries) THEN [threw |-> FALSE, errors |-> errors]
  ELSE IF InThrows(obj) THEN [threw |-> TRUE, errors |-> errors]
  ELSE
    LET key == entries[i].key
        fullPath == IF path # "" THEN path \o "." \o key ELSE key
        expectedType == entries[i].value
        actualValue == JsProp(obj, key)
        actualType == TypeOf(actualValue)
    IN IF ~JsHas(obj, key)
         THEN ValidateFrom(obj, entries, i + 1, path,
                Append(errors, "Missing property: " \o fullPath))
       ELSE IF IsStr(expectedType, "array") /\ actualValue.t # "array"
         THEN ValidateFrom(obj, entries, i + 1, path,
                Append(errors, "Property " \o fullPath
                                 \o " should be an array, got " \o actualType))
       ELSE IF ~IsStr(expectedType, "array") /\ ~IsStr(expectedType, actualType)
         THEN ValidateFrom(obj, entries, i + 1, path,
                Append(errors, "Property " \o fullPath \o " should be "
                                 \o TemplateString(expectedType)
                                 \o ", got " \o actualType))
       ELSE IF IsStr(expectedType, "object") /\ actualValue.t # "null"
         THEN LET inner == validateObject(actualValue, expectedType, fullPath, errors)
              IN IF inner.threw THEN inner
                 ELSE ValidateFrom(obj, entries, i + 1, path, inner.errors)
       ELSE ValidateFrom(obj, entries, i + 1, path, errors)

validateObject(obj, schemaObj, path, errors) ==
  ValidateFrom(obj, ForIn(schemaObj), 1, path, errors)

\* validateResponseSchema(response, schema)
validateResponseSchema(response, schema) ==
  LET walk == validateObject(response.data, schema, "", <<>>)
  IN IF walk.threw THEN [kind |-> "threw", error |-> "TypeError"]
     ELSE [kind |-> "returned", isValid |-> Len(walk.errors) = 0,
           errors |-> walk.errors]

\* The response data and the schemas the validator is called with.
DataKeys == {"id", "title", "meta", "tags"}
PropertyChoices(key) ==
  CASE key = "id" -> {JsNum(1), JsStr("1")}
    [] key = "title" -> {JsStr("x")}
    [] key = "meta" -> {JsObj(EmptyObj), JsObj([city |-> JsStr("x")]), JsNull}
    [] key = "tags" -> {JsArr(<<>>), JsArr(<<JsStr("t")>>), JsStr("t")}
DataObjects ==
  UNION {{JsObj(f) : f \in {g \in [K -> UNION {PropertyChoices(k) : k \in DataKeys}] :
                              \A k \in K : g[k] \in PropertyChoices(k)}} :
         K \in SUBSET DataKeys}
ValidationData ==
  DataObjects \cup {JsUndefined, JsNull, JsStr(""), JsNum(5), JsArr(<<>>)}
IdTitleSchema ==
  JsLiteral(<<Entry("id", JsStr("number")), Entry("title", JsStr("string"))>>)
Schemas ==
  {JsLiteral(<<>>),
   IdTitleSchema,
   JsLiteral(<<Entry("title", JsStr("string")), Entry("id", JsStr("number"))>>),
   JsLiteral(<<Entry("meta", JsStr("object"))>>),
   JsLiteral(<<Entry("tags", JsStr("array"))>>),
   JsLiteral(<<Entry("id", JsStr("number")), Entry("meta", JsStr("object")),
               Entry("tags", JsStr("array"))>>),
   JsLiteral(<<Entry("meta", JsLiteral(<<Entry("city", JsStr("string"))>>))>>)}

\* The call: the result is kept beside its inputs.
Validate ==
  /\ validation.result.kind = "none"
  /\ validation' = [validation EXCEPT
       !.result = validateResponseSchema(validation.response, validation.schema)]
  /\ UNCHANGED <<retryVars, configVars, clientVars, chain>>

(***************************************************************************)
(* FluentAssertions and expectResponse                                     *)
(***************************************************************************)
\* The longest chain of member accesses followed.
MaxChain == 3

\* constructor(actual): the engine keeps a reference to the response.
FluentAssertions(id) == [kind |-> "engine", id |-> id]

\* expectResponse(response): the first engine of a chain.
expectResponse == FluentAssertions(1)

\* `return this`
ReturnNew(this) == FluentAssertions(this.id + 1)
ReturnThis(this) == this

\* expect(...).to...: chai raises an AssertionError when the expectation is
\* not met and returns otherwise.
ExpectLenient(met) == "ok"
Expect(met) == IF met THEN "ok" ELSE "AssertionError"

\* chai's type name of a value, as `.a(type)` / `.an(type)` compare it.
TypeDetect(x) == x.t

\* chai's .property(name): the target is not null or undefined and has the
\* property, own or inherited.
Property(x, name) == x.t \notin {"undefined", "null"} /\ HasProperty(x, name)

\* chai's deep equality, on values without functions or cycles.
DeepEqual(a, b) == a = b

\* chai's .equal is ===: equal primitives; two objects written apart are two
\* references and never equal.
StrictEqual(a, b) == a = b /\ a.t \notin {"object", "array", "function"}

\* chai's .deep.include for a partial that is an object: every own key of
\* the partial deep-equals the target's property (object target), or some
\* element deep-equals the partial (array target); any other target raises.
DeepInclude(target, partial) ==
  \/ /\ target.t = "object"
     /\ \A k \in DOMAIN partial.props :
          k \in DOMAIN target.props /\ DeepEqual(target.props[k], partial.props[k])
  \/ /\ target.t = "array"
     /\ \E i \in DOMAIN target.items : DeepEqual(target.items[i], partial)

\* String.prototype.toLowerCase on the header names used.
ToLowerCase(s) ==
  CASE s = "Content-Type" -> "content-type"
    [] s = "X-Missing" -> "x-missing"
    [] OTHER -> s

\* The expectation of each check, on the response `actual` the engine holds.
StatusEquals(actual, expectedStatus) ==
  StrictEqual(actual.status, JsNum(expectedStatus))

StatusWithin(actual, min, max) ==
  actual.status.t = "number" /\ min <= actual.status.num /\ actual.status.num <= max

BodyPresent(actual) == actual.data.t \notin {"undefined", "null"}

\* oneOf([null, undefined, '', []]) compares with ===: the array literal of
\* the list is an object of its own and equals no data.
BodyEmpty(actual) ==
  actual.data.t \in {"null", "undefined"} \/ IsStr(actual.data, "")

BodyHasProperty(actual, property) == Property(actual.data, property)

\* properties.forEach(...): the position of the first name whose expect
\* raises, which ends the scan; 0 when every name passes.
FirstFailingLast(actual, properties) ==
  LET failing == {i \in DOMAIN properties : ~Property(actual.data, properties[i])}
  IN IF failing = {} THEN 0 ELSE CHOOSE i \in failing : \A j \in failing : j <= i
FirstFailing(actual, properties) ==
  LET failing == {i \in DOMAIN properties : ~Property(actual.data, properties[i])}
  IN IF failing = {} THEN 0 ELSE CHOOSE i \in failing : \A j \in failing : i <= j

BodyHasProperties(actual, properties) == FirstFailing(actual, properties) = 0

BodyMatchesSchema(actual, schema) ==
  \A i \in DOMAIN schema.entries :
    LET key == schema.entries[i].key
        expected == schema.entries[i].value
    IN /\ Property(actual.data, key)
       /\ (TypeOf(expected) = "object" /\ expected.t # "null")
            => TypeDetect(JsProp(actual.data, key)) = TypeOf(expected)

BodyIsArray(actual) == TypeDetect(actual.data) = "array"

BodyHasLength(actual, expectedLength) ==
  /\ Property(actual.data, "length")
  /\ StrictEqual(JsProp(actual.data, "length"), JsNum(expectedLength))

BodyIsObject(actual) == TypeDetect(actual.data) = "object"

\* args is <<headerName>> or <<headerName, expectedValue>>.
HeaderPresent(actual, args) ==
  LET headerValue == JsProp(actual.headers, ToLowerCase(args[1]))
  IN /\ Property(actual.headers, ToLowerCase(args[1]))
     /\ Len(args) = 2 => StrictEqual(headerValue, JsStr(args[2]))

BodyContains(actual, partial) == DeepInclude(actual.data, partial)

BodyEquals(actual, expected) == DeepEqual(actual.data, expected)

\* RespondedWithin without the test for timing data.
RespondedWithinAlways(actual, maxTime) ==
  actual.responseTime.t = "number" /\ actual.responseTime.num < maxTime

\* if (responseTime !== undefined) expect(responseTime).to.be.below(maxTime)
RespondedWithin(actual, maxTime) ==
  actual.responseTime.t # "undefined"
    => actual.responseTime.t = "number" /\ actual.responseTime.num < maxTime

\* The responses given to expectResponse.
Bodies ==
  {JsUndefined, JsNull, JsStr(""), JsArr(<<>>), JsArr(<<JsNum(1)>>),
   JsObj(EmptyObj), JsObj([id |-> JsNum(1), title |-> JsStr("x")]),
   JsObj([id |-> JsNull]), JsObj([id |-> JsObj(EmptyObj)]),
   JsObj([id |-> JsArr(<<>>)])}
HeaderMaps ==
  {JsObj([k \in {"content-type"} |-> JsStr("application/json")]),
   JsObj([k \in {"Content-Type"} |-> JsStr("application/json")])}
Responses ==
  [status : {JsNum(200), JsNum(404)}, data : Bodies, headers : HeaderMaps,
   responseTime : {JsUndefined, JsNum(50)}]

\* The schemas given to toMatchSchema.
SchemaInputs ==
  {JsLiteral(<<Entry("id", JsStr("number"))>>),
   JsLiteral(<<Entry("id", JsStr("number")), Entry("missing", JsStr("string"))>>),
   JsLiteral(<<Entry("id", JsLiteral(<<>>))>>),
   JsLiteral(<<Entry("id", JsArr(<<>>))>>)}

NoCheck ==
  [name |-> "none", args |-> <<>>, engine |-> 0, holds |-> TRUE,
   evaluated |-> FALSE, outcome |-> "ok", at |-> 0]

\* The expectation of the check `name` called with the arguments args, on a
\* response.
Holds(name, args, actual) ==
  CASE name = "toHaveStatus" -> StatusEquals(actual, args[1])
    [] name = "toHaveStatusInRange" -> StatusWithin(actual, args[1], args[2])
    [] name = "toHaveBody" -> BodyPresent(actual)
    [] name = "toHaveEmptyBody" -> BodyEmpty(actual)
    [] name = "toHaveProperty" -> BodyHasProperty(actual, args[1])
    [] name = "toHaveProperties" -> BodyHasProperties(actual, args[1])
    [] name = "toMatchSchema" -> BodyMatchesSchema(actual, args[1])
    [] name = "toBeArray" -> BodyIsArray(actual)
    [] name = "toHaveLength" -> BodyHasLength(actual, args[1])
    [] name = "toBeObject" -> BodyIsObject(actual)
    [] name = "toHaveHeader" -> HeaderPresent(actual, args)
    [] name = "toContain" -> BodyContains(actual, args[1])
    [] name = "toEqual" -> BodyEquals(actual, args[1])
    [] name = "toRespondWithin" -> RespondedWithin(actual, args[1])

\* One member call `.name(args)` on what the chain has produced so far.  On an
\* engine the check runs: it returns the engine or raises.  On anything else
\* (the `and` method taken as a property, or undefined) the member is not a
\* function and the call raises a TypeError before any expectation is looked
\* at.
Method(name, args) ==
  /\ chain.status = "running"
  /\ chain.steps < MaxChain
  /\ LET this == chain.receiver
         raised == IF this.kind = "engine"
                     THEN Expect(Holds(name, args, chain.response))
                     ELSE "TypeError"
     IN chain' = [chain EXCEPT
          !.steps = @ + 1,
          !.status = IF raised = "ok" THEN "running" ELSE "raised",
          !.error = raised,
          !.receiver = IF raised = "ok" THEN ReturnThis(this) ELSE this,
          !.lastCheck = [name |-> name,
                         args |-> args,
                         engine |-> IF this.kind = "engine" THEN this.id ELSE 0,
                         holds |-> Holds(name, args, chain.given),
                         evaluated |-> this.kind = "engine",
                         outcome |-> raised,
                         at |-> IF this.kind = "engine" /\ name = "toHaveProperties"
                                  THEN FirstFailing(chain.response, args[1])
                                  ELSE 0]]
  /\ UNCHANGED <<retryVars, configVars, clientVars, validation>>

toHaveStatus(expectedStatus) == Method("toHaveStatus", <<expectedStatus>>)
toHaveStatusInRange(minStatus, maxStatus) ==
  Method("toHaveStatusInRange", <<minStatus, maxStatus>>)
toHaveBody == Method("toHaveBody", <<>>)
toHaveEmptyBody == Method("toHaveEmptyBody", <<>>)
toHaveProperty(property) == Method("toHaveProperty", <<property>>)
toHaveProperties(properties) == Method("toHaveProperties", <<properties>>)
toMatchSchema(schema) == Method("toMatchSchema", <<schema>>)
toBeArray == Method("toBeArray", <<>>)
toHaveLength(length) == Method("toHaveLength", <<length>>)
toBeObject == Method("toBeObject", <<>>)
\* args is <<headerName>> or <<headerName, headerValue>>.
toHaveHeader(args) == Method("toHaveHeader", args)
toContain(expectedData) == Method("toContain", <<expectedData>>)
toEqual(expectedData) == Method("toEqual", <<expectedData>>)
toRespondWithin(maxTime) == Method("toRespondWithin", <<maxTime>>)

\* .and(): the method called.  It returns the engine; taken from anything but
\* an engine it is undefined and the call raises.
and ==
  /\ chain.status = "running"
  /\ chain.steps < MaxChain
  /\ LET this == chain.receiver
     IN chain' = IF this.kind = "engine"
          THEN [chain EXCEPT !.steps = @ + 1, !.receiver = ReturnThis(this)]
          ELSE [chain EXCEPT !.steps = @ + 1, !.status = "raised",
                             !.error = "TypeError"]
  /\ UNCHANGED <<retryVars, configVars, clientVars, validation>>

\* .and with no call: the value of the member, which is the method itself on
\* an engine and undefined on a function.
ReadAnd ==
  /\ chain.status = "running"
  /\ chain.steps < MaxChain
  /\ chain.receiver.kind \in {"engine", "function"}
  /\ chain' = [chain EXCEPT
       !.steps = @ + 1,
       !.receiver = IF chain.receiver.kind = "engine"
                      THEN [kind |-> "function", id |-> 0]
                      ELSE [kind |-> "undefined", id |-> 0]]
  /\ UNCHANGED <<retryVars, configVars, clientVars, validation>>

(***************************************************************************)
(* Specifications                                                          *)
(***************************************************************************)
InitRetry == retry = [c \in RetryCalls |-> IdleCall]

InitConfigFixed ==
  /\ config = SourceConfig
  /\ processEnv = EmptyObj
  /\ resolved = [called |-> FALSE]
  /\ currentEnv = [called |-> FALSE]

\* No client operation has happened; both instances are constructed.
NoOp == [op |-> "none"]
NoAuth == [kind |-> "none", token |-> "", type |-> "", overwritten |-> FALSE]

InitClientsWith(a) ==
  /\ clients = [c \in ClientIds |-> HttpClient(IF c = 1 THEN a ELSE [given |-> FALSE])]
  /\ inflight = {}
  /\ settled = {}
  /\ log = <<>>
  /\ nOps = 0
  /\ lastOp = NoOp
  /\ auth = [c \in ClientIds |-> NoAuth]

InitClientsFixed == InitClientsWith([given |-> FALSE])

\* The validator before its call, on one response and one schema.
NewValidation(data, schema) ==
  [response |-> [data |-> data], schema |-> schema, result |-> [kind |-> "none"]]

\* A chain right after expectResponse(response).
NewChain(response) ==
  [given |-> response, response |-> response, receiver |-> expectResponse,
   status |-> "running", error |-> "ok", steps |-> 0, lastCheck |-> NoCheck]

InitChecksFixed ==
  /\ validation = NewValidation(JsUndefined, JsLiteral(<<>>))
  /\ chain = NewChain([status |-> JsNum(200), data |-> JsUndefined,
                       headers |-> JsObj(EmptyObj), responseTime |-> JsUndefined])

\* The retry utility, one call.
Init == InitRetry /\ InitConfigFixed /\ InitClientsFixed /\ InitChecksFixed

Next ==
  \/ \E args \in RetryArgs : retryWithBackoff(1, args)
  \/ \E v \in Values : FnSucceeds(1, v)
  \/ \E e \in Errors : FnFails(1, e)
  \/ delay(1)

Spec == Init /\ [][Next]_vars

\* One call whose fn always settles and whose timers always fire.
SpecRetryFair == Init /\ [][Next]_vars /\ WF_vars(Next)

\* Two retryWithBackoff calls in one process, their steps interleaved.
NextTwoRetries ==
  \/ \E c \in RetryCalls, args \in RetryArgs : retryWithBackoff(c, args)
  \/ \E c \in RetryCalls, v \in Values : FnSucceeds(c, v)
  \/ \E c \in RetryCalls, e \in Errors : FnFails(c, e)
  \/ \E c \in RetryCalls : delay(c)

SpecTwoRetries == Init /\ [][NextTwoRetries]_vars

\* The configuration resolver, over the header maps and process environments.
InitConfig ==
  /\ InitRetry
  /\ \E b \in BaseHeaderChoices, d \in EnvHeaderChoices, s \in EnvHeaderChoices :
       config = Config(b, d, s)
  /\ processEnv \in ProcessEnvs
  /\ resolved = [called |-> FALSE]
  /\ currentEnv = [called |-> FALSE]
  /\ InitClientsFixed
  /\ InitChecksFixed

NextConfig ==
  \/ \E args \in ConfigArgs : ResolveConfig(args)
  \/ CurrentEnvironment

SpecConfig == InitConfig /\ [][NextConfig]_vars

\* Callers that resolve configurations and write to what they were returned,
\* on the config object as the source writes it.
NextConfigWrites ==
  \/ \E args \in ConfigArgs : ResolveConfig(args)
  \/ \E m \in {<<"timeout", 1>>, <<"timeout", 2>>, <<"headers", "text/plain">>,
               <<"headers", "text/html">>, <<"retry", 1>>, <<"retry", 2>>} :
       MutateResult(m[1], m[2])

SpecConfigWrites == Init /\ [][NextConfigWrites]_vars

\* One HttpClient instance: its calls, its setters and the transport.
InitClient ==
  /\ InitRetry
  /\ InitConfigFixed
  /\ \E a \in ClientConfigArgs : InitClientsWith(a)
  /\ InitChecksFixed

NextClient ==
  \/ \E k \in CallConfigs : get(1, k)
  \/ \E k \in CallConfigs : post(1, k)
  \/ \E k \in CallConfigs : put(1, k)
  \/ \E k \in CallConfigs : patch(1, k)
  \/ \E k \in CallConfigs : delete(1, k)
  \/ \E k \in CallConfigs : head(1, k)
  \/ \E k \in CallConfigs : options(1, k)
  \/ \E req \in inflight, o \in TransportOutcomes : TransportResponds(req, o)
  \/ \E h \in HeaderArgs : setDefaultHeaders(1, h)
  \/ \E a \in AuthArgs : setAuthorization(1, a)
  \/ clearAuthorization(1)
  \/ setBaseUrl(1, OtherBaseUrl)

SpecClient == InitClient /\ [][NextClient]_vars

\* One assertion chain, over the responses and the arguments of the checks.
InitAssert ==
  /\ InitRetry
  /\ InitConfigFixed
  /\ InitClientsFixed
  /\ validation = NewValidation(JsUndefined, JsLiteral(<<>>))
  /\ \E response \in Responses : chain = NewChain(response)

NextAssert ==
  \/ \E s \in {200, 404} : toHaveStatus(s)
  \/ \E r \in {<<200, 299>>, <<400, 499>>} : toHaveStatusInRange(r[1], r[2])
  \/ toHaveBody
  \/ toHaveEmptyBody
  \/ \E p \in {"id", "missing"} : toHaveProperty(p)
  \/ \E ps \in {<<>>, <<"id", "title">>, <<"id", "missing">>} : toHaveProperties(ps)
  \/ \E s \in SchemaInputs : toMatchSchema(s)
  \/ toBeArray
  \/ \E n \in {0, 1} : toHaveLength(n)
  \/ toBeObject
  \/ \E h \in {<<"Content-Type">>, <<"content-type", "application/json">>,
               <<"X-Missing">>} : toHaveHeader(h)
  \/ \E e \in {JsObj([id |-> JsNum(1)]), JsObj([id |-> JsNum(2)])} : toContain(e)
  \/ \E e \in {JsObj(EmptyObj), JsArr(<<>>), JsStr("")} : toEqual(e)
  \/ \E t \in {10, 100} : toRespondWithin(t)
  \/ and
  \/ ReadAnd

SpecAssert == InitAssert /\ [][NextAssert]_vars

\* One validateResponseSchema call, over the data and the schemas.
InitValidate ==
  /\ InitRetry
  /\ InitConfigFixed
  /\ InitClientsFixed
  /\ \E data \in ValidationData, schema \in Schemas :
       validation = NewValidation(data, schema)
  /\ chain = NewChain([status |-> JsNum(200), data |-> JsUndefined,
                       headers |-> JsObj(EmptyObj), responseTime |-> JsUndefined])

NextValidate == Validate

SpecValidate == InitValidate /\ [][NextValidate]_vars

\* Two HttpClient instances, each with its calls and its setters.
InitTwoClients ==
  /\ InitRetry
  /\ InitConfigFixed
  /\ \E a \in ClientConfigArgs : InitClientsWith(a)
  /\ InitChecksFixed

NextTwoClients ==
  \/ \E c \in ClientIds : get(c, EmptyObj)
  \/ \E c \in ClientIds, h \in HeaderArgs : setDefaultHeaders(c, h)
  \/ \E c \in ClientIds, a \in AuthArgs : setAuthorization(c, a)
  \/ \E c \in ClientIds : clearAuthorization(c)
  \/ \E c \in ClientIds : setBaseUrl(c, OtherBaseUrl)

SpecTwoClients == InitTwoClients /\ [][NextTwoClients]_vars

(***************************************************************************)
(* Claims about retryWithBackoff (specification Spec, call 1)              *)
(***************************************************************************)
AllFailed(inv, n) == \A i \in 1..n : ~inv[i].ok

Terminated(c) == retry[c].pc \in {"resolved", "rejected"}

\* C1: when fn fails on its first k invocations and succeeds on invocation
\* k+1 (k < maxAttempts), fn is invoked exactly k+1 times, the call resolves
\* with the value of invocation k+1 and that invocation is the last event of
\* the call; before that success the call has not ended while attempts are
\* left.
C1_SuccessAfterKFailures ==
  LET r == retry[1]
      inv == Invocations(1)
  IN /\ \A k \in 0..MaxAttemptsBound :
          (k < r.maxAttempts /\ Len(inv) >= k + 1 /\ AllFailed(inv, k) /\ inv[k + 1].ok)
            => /\ Len(inv) = k + 1
               /\ r.pc = "resolved"
               /\ r.result = [kind |-> "value", val |-> inv[k + 1].val]
               /\ r.events[Len(r.events)] = inv[k + 1]
     /\ (r.pc # "idle" /\ AllFailed(inv, Len(inv)) /\ Len(inv) < r.maxAttempts)
          => ~Terminated(1)

C1_Witness ==
  /\ retry[1].pc = "resolved"
  /\ retry[1].result.kind = "value"
  /\ Len(Invocations(1)) = 3
  /\ retry[1].maxAttempts = 3

\* C2: the event immediately before invocation i > 1 is a wait of exactly
\* initialDelay * 2^(i-2) ms; with maxAttempts = 3 and initialDelay = 100, two
\* failures and a success wait 100 then 200 and return the success value.
C2_BackoffDelays ==
  LET r == retry[1]
      inv == Invocations(1)
      w == Waits(1)
  IN /\ \A i \in 2..Len(inv) :
          /\ r.events[2 * i - 1] = inv[i]
          /\ r.events[2 * i - 2].kind = "wait"
          /\ r.events[2 * i - 2].val = r.initialDelay * Pow2(i - 2)
     /\ (r.maxAttempts = 3 /\ r.initialDelay = 100 /\ Len(inv) = 3 /\ inv[3].ok)
          => /\ Len(w) = 2 /\ w[1].val = 100 /\ w[2].val = 200
             /\ r.result = [kind |-> "value", val |-> inv[3].val]

C2_Witness ==
  /\ retry[1].maxAttempts = 3 /\ retry[1].initialDelay = 100
  /\ retry[1].pc = "resolved"
  /\ Len(Invocations(1)) = 3

\* C3: when fn fails on every invocation, fn is invoked exactly maxAttempts
\* times and the call rejects with the error of the last invocation.
C3_AllFail ==
  LET r == retry[1]
      inv == Invocations(1)
  IN /\ r.pc = "rejected"
          => /\ Len(inv) = r.maxAttempts
             /\ AllFailed(inv, Len(inv))
             /\ r.result = [kind |-> "error", val |-> inv[Len(inv)].val]
     /\ (r.maxAttempts >= 1 /\ Len(inv) = r.maxAttempts /\ AllFailed(inv, Len(inv)))
          => r.pc = "rejected"
     /\ (r.pc # "idle" /\ AllFailed(inv, Len(inv)) /\ Len(inv) < r.maxAttempts)
          => r.pc \in {"fn", "delay"}

C3_Witness ==
  /\ retry[1].pc = "rejected"
  /\ retry[1].maxAttempts = 3
  /\ Invocations(1)[1].val # Invocations(1)[3].val

(***************************************************************************)
(* Claims about the configuration resolver (specification SpecConfig)      *)
(***************************************************************************)
\* C4: for every environment name that is not configured, the call returns
\* exactly what getEnvironmentConfig('development') returns.
C4_FallbackToDevelopment ==
  (resolved.called /\ Len(resolved.args) = 1
     /\ resolved.args[1] \notin ConfiguredEnvironments)
    => resolved.result = getEnvironmentConfig(config, <<"development">>)

\* The environment override a configured name selects.
OverrideOf(name) == config.environments[name]

\* C5: the resolved headers' key set is the union of the base and the
\* environment key sets; a key of the environment map has the environment's
\* value and a key only in the base map keeps the base value.
C5_HeaderMerge ==
  (resolved.called /\ Len(resolved.args) = 1
     /\ resolved.args[1] \in ConfiguredEnvironments)
    => LET base == config.headers
           o == OverrideOf(resolved.args[1])
           env == IF "headers" \in DOMAIN o THEN o.headers ELSE EmptyObj
           h == resolved.result.headers
       IN /\ DOMAIN h = (DOMAIN base) \cup (DOMAIN env)
          /\ \A k \in DOMAIN env : h[k] = env[k]
          /\ \A k \in (DOMAIN base) \ (DOMAIN env) : h[k] = base[k]

C5_Witness ==
  /\ resolved.called /\ resolved.args = <<"staging">>
  /\ "headers" \in DOMAIN OverrideOf("staging")
  /\ "Accept" \in DOMAIN OverrideOf("staging").headers
  /\ "Accept" \in DOMAIN config.headers
  /\ config.headers["Accept"] # OverrideOf("staging").headers["Accept"]
  /\ "User-Agent" \in DOMAIN resolved.result.headers

\* C6: resolved without an environment name, the environment used is the
\* first non-empty of NODE_ENV and TEST_ENV, 'development' only when both
\* are unset.
C6_OmittedNameUsesProcessEnv ==
  (resolved.called /\ resolved.args = <<>>)
    => resolved.result =
         getEnvironmentConfig(config, <<getCurrentEnvironment(processEnv)>>)

\* C7: for a configured environment the result has the environment's baseUrl
\* and timeout and the base retry policy; staging has timeout 10000 and the
\* staging base URL.
C7_ConfiguredEnvironment ==
  (resolved.called /\ Len(resolved.args) = 1
     /\ resolved.args[1] \in ConfiguredEnvironments)
    => /\ resolved.result.baseUrl = OverrideOf(resolved.args[1]).baseUrl
       /\ resolved.result.timeout = OverrideOf(resolved.args[1]).timeout
       /\ resolved.result.retry = config.retry
       /\ resolved.args[1] = "staging"
            => /\ resolved.result.timeout = 10000
               /\ resolved.result.baseUrl = "https://jsonplaceholder-staging.typicode.com"
       /\ resolved.args[1] = "production" => resolved.result.timeout = 5000
       /\ resolved.args[1] = "development" => resolved.result.timeout = 15000

C7_Witness ==
  /\ resolved.called /\ resolved.args = <<"staging">>
  /\ resolved.result.timeout = 10000

(***************************************************************************)
(* Claims about HttpClient (specification SpecClient, instance 1)          *)
(***************************************************************************)
IsCall(op) == op.op \in Methods

\* The default value of header k of an instance: its own default header, else
\* the common one.
DefaultHeader(defaults, k) ==
  IF k \in DOMAIN defaults.headers.own THEN defaults.headers.own[k]
  ELSE defaults.headers.common[k]

\* C8: a verb call leaves the instance's default headers, base URL and
\* timeout exactly as they were, and a call without overrides carries only
\* default headers of the instance, none of an earlier call's overrides.
C8_CallsLeaveDefaults ==
  IsCall(lastOp)
    => /\ clients[lastOp.client].defaults = lastOp.before
       /\ lastOp.arg.config = EmptyObj
            => \A k \in DOMAIN lastOp.arg.request.headers :
                 /\ k \in (DOMAIN lastOp.before.headers.common)
                            \cup (DOMAIN lastOp.before.headers.own)
                 /\ lastOp.arg.request.headers[k] = DefaultHeader(lastOp.before, k)

C8_Witness ==
  /\ IsCall(lastOp)
  /\ lastOp.arg.config = EmptyObj
  /\ "X-Custom-Header" \notin DOMAIN lastOp.arg.request.headers
  /\ \E r \in inflight : r.id < lastOp.arg.request.id
                          /\ "X-Custom-Header" \in DOMAIN r.headers

\* The Authorization header of a request comes from the instance defaults,
\* not from the call's own headers.
AuthorizationFromDefaults(op) ==
  /\ "Authorization" \in DOMAIN op.arg.request.headers
  /\ "Authorization" \notin DOMAIN CallHeaders(op.arg.config)

NoOtherAuthorization(op) ==
  /\ "Authorization" \notin DOMAIN CallHeaders(op.arg.config)
  /\ "Authorization" \notin DOMAIN op.before.headers.own

HookEntries(event, id) ==
  {i \in DOMAIN log : log[i].event = event /\ log[i].call = id}

\* C11: when the transport reports an HTTP error status or a failure without
\* a response, the call rejects with that very error (its status and code);
\* the transport is invoked once per call, the request is not sent again,
\* and no reported failure ends as a fulfilled result.
C11_ErrorsPropagate ==
  /\ (lastOp.op = "transport" /\ lastOp.arg.outcome.kind = "error")
       => /\ [id |-> lastOp.arg.request.id, state |-> "rejected",
              value |-> lastOp.arg.outcome] \in settled
          /\ \A s \in settled : s.id = lastOp.arg.request.id => s.state = "rejected"
          /\ \A r \in inflight : r.id # lastOp.arg.request.id
  /\ \A s \in settled :
       /\ Cardinality(HookEntries("request", s.id)) = 1
       /\ (s.value.kind = "error") => s.state = "rejected"

C11_Witness ==
  /\ lastOp.op = "transport"
  /\ lastOp.arg.outcome.kind = "error"
  /\ lastOp.arg.outcome.status = 404
  /\ \E s \in settled : s.state = "rejected" /\ s.value.status = 404

\* C12: for every call the request hook's entry precedes the response
\* hook's, and every call that has completed has exactly one response-hook
\* entry, at debug level when it succeeded and at error level when it failed.
C12_OneResponseEntryPerCall ==
  /\ \A r \in inflight :
       /\ Cardinality(HookEntries("request", r.id)) = 1
       /\ HookEntries("response", r.id) = {}
  /\ \A s \in settled :
       /\ Cardinality(HookEntries("request", s.id)) = 1
       /\ Cardinality(HookEntries("response", s.id)) = 1
       /\ \A i \in HookEntries("request", s.id), j \in HookEntries("response", s.id) :
            /\ i < j
            /\ log[j].level = IF s.state = "fulfilled" THEN "debug" ELSE "error"

\* The Authorization header of a header map, if any.
AuthorizationOf(h) ==
  IF "Authorization" \in DOMAIN h THEN [present |-> TRUE, value |-> h["Authorization"]]
  ELSE [present |-> FALSE]

\* A call that passes no Authorization header on an instance constructed
\* without one carries the Authorization of the common defaults as they were
\* when the call was dispatched.
UsesAuthorizationAtDispatch ==
  (IsCall(lastOp) /\ NoOtherAuthorization(lastOp))
    => AuthorizationOf(lastOp.arg.request.headers)
         = AuthorizationOf(lastOp.before.headers.common)

\* setAuthorization and clearAuthorization leave every request in flight,
\* its headers included, as it was dispatched.
SetterKeepsInFlight ==
  (nOps' = nOps + 1 /\ lastOp'.op \in {"setAuthorization", "clearAuthorization"})
    => inflight' = inflight

\* C13: each call uses the Authorization state current when it was
\* dispatched; a setAuthorization or clearAuthorization executed while a call
\* is in flight does not change that call's headers.
C13_AuthorizationAtDispatch ==
  []UsesAuthorizationAtDispatch /\ [][SetterKeepsInFlight]_vars

\* Two calls in flight on one instance, dispatched before and after a
\* setAuthorization, carrying different Authorization states.
C13_Witness ==
  /\ IsCall(lastOp) /\ NoOtherAuthorization(lastOp)
  /\ \E r1 \in inflight, r2 \in inflight :
       /\ r1.client = r2.client /\ r1.id < r2.id
       /\ r2 = lastOp.arg.request
       /\ ~AuthorizationOf(r1.headers).present
       /\ AuthorizationOf(r2.headers) = [present |-> TRUE, value |-> "Bearer fake-token"]

(***************************************************************************)
(* Claims about two HttpClient instances (specification SpecTwoClients)    *)
(***************************************************************************)
Setters == {"setAuthorization", "clearAuthorization", "setDefaultHeaders", "setBaseUrl"}

\* A setter of one instance leaves the defaults of every other instance as
\* they were.
SetterLeavesOthers ==
  (nOps' = nOps + 1 /\ lastOp'.op \in Setters)
    => \A b \in ClientIds \ {lastOp'.client} : clients'[b] = clients[b]

\* A call of an instance on which Authorization was never set carries none,
\* and it carries the timeout the instance was constructed with.
CallUsesOwnDefaults ==
  IsCall(lastOp)
    => /\ lastOp.arg.request.timeout = clients[lastOp.client].config.timeout
       /\ (auth[lastOp.client] = NoAuth /\ NoOtherAuthorization(lastOp))
            => ~AuthorizationOf(lastOp.arg.request.headers).present

\* C14: no sequence of setters on one instance changes the default headers,
\* base URL or timeout of another instance or the headers of its calls.
C14_InstancesIsolated ==
  []CallUsesOwnDefaults /\ [][SetterLeavesOthers]_vars

\* Both instances constructed from the default resolved configuration;
\* instance 1 has Authorization and a new base URL, instance 2 sends a call
\* without Authorization to its original base URL.
C14_Witness ==
  /\ clients[1].config = clients[2].config
  /\ AuthorizationOf(clients[1].defaults.headers.common).present
  /\ clients[1].defaults.baseURL = OtherBaseUrl
  /\ IsCall(lastOp) /\ lastOp.client = 2
  /\ ~AuthorizationOf(lastOp.arg.request.headers).present
  /\ lastOp.arg.request.baseURL = DefaultBaseUrl

(***************************************************************************)
(* FluentAssertions (C15..C17)                                             *)
(***************************************************************************)
\* The chain is still on the engine expectResponse made, and the last check
\* that ran, ran on it.
OnFirstEngine ==
  /\ chain.receiver.kind = "engine" => chain.receiver = expectResponse
  /\ chain.lastCheck.evaluated => chain.lastCheck.engine = expectResponse.id

\* A member called on an engine that did not raise returned that engine.
ReturnsItsEngine ==
  (chain.receiver.kind = "engine" /\ chain'.status = "running"
     /\ chain'.receiver.kind = "engine")
    => chain'.receiver = chain.receiver

\* C15: each of the fourteen checks, when it succeeds, and and() return the
\* engine they were called on, so every check of a chain runs on the engine
\* that holds the response given to expectResponse.
C15_SameEngine == []OnFirstEngine /\ [][ReturnsItsEngine]_vars

\* A chain of at least two members called in a row, the last one a check that
\* succeeded, still on the first engine.
C15_Witness ==
  /\ chain.steps >= 2
  /\ chain.status = "running"
  /\ chain.receiver.kind = "engine"
  /\ chain.lastCheck.evaluated /\ chain.lastCheck.holds

\* C16: a chain that joins its checks with `.and` read as a property raises
\* only at a check whose expectation does not hold for the response, and
\* every check of it runs on the engine that holds the response.
C16_AndPropertyChainsComplete ==
  /\ chain.status = "raised" => ~chain.lastCheck.holds
  /\ chain.lastCheck.name # "none"
       => chain.lastCheck.evaluated /\ chain.lastCheck.engine = expectResponse.id

\* Once a chain has raised, nothing more of it happens.
RaisedChainIsOver == chain.status = "raised" => chain' = chain

\* A check that ran and whose expectation is not met has raised, and the
\* response is as it was given.
FailedCheckRaised ==
  /\ (chain.lastCheck.evaluated /\ ~chain.lastCheck.holds)
       => chain.status = "raised" /\ chain.error = "AssertionError"
  /\ chain.response = chain.given

\* C17: a check whose expectation is not met raises at that check; no later
\* member of the chain is evaluated; the response is unchanged by the failing
\* check and by the checks before it.
C17_FailingCheckRaises == []FailedCheckRaised /\ [][RaisedChainIsOver]_vars

\* A check raised after at least one member before it had returned.
C17_Witness ==
  /\ chain.status = "raised"
  /\ chain.error = "AssertionError"
  /\ chain.steps >= 2
  /\ chain.lastCheck.evaluated /\ ~chain.lastCheck.holds

(***************************************************************************)
(* validateResponseSchema (C18..C20)                                       *)
(***************************************************************************)
Called == validation.result.kind # "none"
Returned == validation.result.kind = "returned"

\* The top-level keys of the schema that the data, an object, does not have.
MissingKeys ==
  {k \in {validation.schema.entries[i].key : i \in DOMAIN validation.schema.entries} :
     ~JsHas(validation.response.data, k)}

\* Every value of the schema is a type name.
IsFlat(schema) == \A i \in DOMAIN schema.entries : schema.entries[i].value.t = "string"

\* The value is of the type the name stands for.
HasNamedType(value, name) ==
  CASE name = "array" -> value.t = "array"
    [] name = "object" -> value.t = "object"
    [] OTHER -> TypeOf(value) = name

\* The data is an object that has every key of the flat schema as its own
\* property, each of the named type.
FullyMatches(data, schema) ==
  /\ data.t = "object"
  /\ \A i \in DOMAIN schema.entries :
       /\ schema.entries[i].key \in DOMAIN data.props
       /\ HasNamedType(data.props[schema.entries[i].key], schema.entries[i].value.str)

\* C18: when n >= 1 top-level keys of the schema are missing from the data
\* the result is invalid with at least n errors; when the schema is flat and
\* every property exists with the named type the result is valid with no
\* errors.
C18_MissingAndMatching ==
  Called =>
    /\ (validation.response.data.t = "object" /\ MissingKeys # {})
         => /\ Returned
            /\ ~validation.result.isValid
            /\ Len(validation.result.errors) >= Cardinality(MissingKeys)
    /\ (IsFlat(validation.schema)
           /\ FullyMatches(validation.response.data, validation.schema))
         => /\ Returned
            /\ validation.result.isValid
            /\ validation.result.errors = <<>>

\* C19: the call returns a result object for every response data and every
\* schema; it never throws.
C19_NeverRaises == validation.result.kind # "threw"

\* The one violation the walk is said to record for a key of a flat schema:
\* none when the property is there with the right type.
ClaimedViolation(data, entry) ==
  LET expected == entry.value.str
      actual == JsProp(data, entry.key)
  IN IF ~JsHas(data, entry.key)
       THEN <<"Missing property: " \o entry.key>>
     ELSE IF ~(IF expected = "array" THEN actual.t = "array"
                                     ELSE TypeOf(actual) = expected)
       THEN <<"Property " \o entry.key \o " should be " \o expected
                \o ", got " \o TypeOf(actual)>>
     ELSE <<>>

RECURSIVE ClaimedErrors(_, _, _)
ClaimedErrors(data, entries, i) ==
  IF i > Len(entries) THEN <<>>
  ELSE ClaimedViolation(data, entries[i]) \o ClaimedErrors(data, entries, i + 1)

\* C20: for a flat schema and data that is an object or an array, the errors
\* are exactly one violation per missing or wrongly typed key, in the order
\* of the schema's keys; data {id: 1} with schema {id: 'number', title:
\* 'string'} gives {isValid: false, errors: ['Missing property: title']}.
C20_OneViolationPerKey ==
  Called =>
    /\ (IsFlat(validation.schema) /\ validation.response.data.t \in {"object", "array"})
         => /\ Returned
            /\ validation.result.errors =
                 ClaimedErrors(validation.response.data, validation.schema.entries, 1)
            /\ validation.result.isValid = (validation.result.errors = <<>>)
    /\ (validation.response.data = JsObj([id |-> JsNum(1)])
           /\ validation.schema = IdTitleSchema)
         => /\ Returned
            /\ ~validation.result.isValid
            /\ validation.result.errors = <<"Missing property: title">>

(***************************************************************************)
(* validateResponseSchema with nested schemas (C21)                        *)
(***************************************************************************)
\* C21: for a key of the schema whose value is a nested schema and whose
\* data value is an object, every nested key the data value lacks is reported
\* as 'Missing property: key.nested', and when the data value matches the
\* nested schema nothing is recorded for the key.
C21_NestedSchemasRecurse ==
  (Called /\ validation.response.data.t = "object") =>
    \A i \in DOMAIN validation.schema.entries :
      LET key == validation.schema.entries[i].key
          nested == validation.schema.entries[i].value
          inner == JsProp(validation.response.data, key)
      IN (nested.t = "object" /\ inner.t = "object") =>
           /\ Returned
           /\ \A j \in DOMAIN nested.entries :
                ~JsHas(inner, nested.entries[j].key)
                  => \E e \in DOMAIN validation.result.errors :
                       validation.result.errors[e] =
                         "Missing property: " \o key \o "." \o nested.entries[j].key
           /\ (FullyMatches(inner, nested) /\ Len(validation.schema.entries) = 1)
                => validation.result.errors = <<>> /\ validation.result.isValid

(***************************************************************************)
(* The single checks of FluentAssertions (C22..C26)                        *)
(***************************************************************************)
\* The last member called was the check `name`, and it ran on the engine.
Ran(name) == chain.lastCheck.name = name /\ chain.lastCheck.evaluated

\* The check that ran last returned, and what it returned is the engine.
Succeeded ==
  /\ chain.lastCheck.outcome = "ok"
  /\ chain.receiver.kind = "engine" => chain.receiver = expectResponse

\* name is a property of the data, own or inherited.
IsPropertyOf(data, name) ==
  data.t \notin {"undefined", "null"} /\ HasProperty(data, name)

\* C22: toMatchSchema(schema) succeeds iff every top-level key of schema is a
\* property of data and, for each key whose schema value is a non-null
\* object, typeof data[key] is 'object'.
C22_OneLevelProbe ==
  Ran("toMatchSchema") =>
    LET schema == chain.lastCheck.args[1]
        data == chain.given.data
    IN Succeeded <=>
         \A i \in DOMAIN schema.entries :
           /\ IsPropertyOf(data, schema.entries[i].key)
           /\ (TypeOf(schema.entries[i].value) = "object"
                 /\ schema.entries[i].value.t # "null")
                => TypeOf(JsProp(data, schema.entries[i].key)) = "object"

\* C23: toHaveEmptyBody() succeeds iff the data is null, undefined, the empty
\* string or an empty array.
C23_EmptyBody ==
  Ran("toHaveEmptyBody") =>
    LET data == chain.given.data
    IN Succeeded <=>
         \/ data.t \in {"null", "undefined"}
         \/ data.t = "string" /\ data.str = ""
         \/ data.t = "array" /\ Len(data.items) = 0

\* The header names of the responses and of the calls, letter case ignored.
SameIgnoringCase(a, b) == ToLowerCase(a) = ToLowerCase(b)

\* C24: toHaveHeader(name, value?) succeeds iff the headers hold a header
\* whose name equals name with letter case ignored, whatever the case of the
\* stored key, and, when value is given, that header's value equals value.
C24_HeaderNameIgnoresCase ==
  Ran("toHaveHeader") =>
    LET args == chain.lastCheck.args
        headers == chain.given.headers.props
    IN Succeeded <=>
         \E k \in DOMAIN headers :
           /\ SameIgnoringCase(k, args[1])
           /\ Len(args) = 2 => headers[k] = JsStr(args[2])

\* C25: toHaveProperties(names) returns the engine iff every name is a
\* property of data (always for an empty list); otherwise it raises at the
\* first name that is not, the names before it being properties.
C25_FirstMissingNameRaises ==
  Ran("toHaveProperties") =>
    LET names == chain.lastCheck.args[1]
        data == chain.given.data
        at == chain.lastCheck.at
    IN /\ Succeeded <=> \A i \in DOMAIN names : IsPropertyOf(data, names[i])
       /\ Succeeded => at = 0
       /\ ~Succeeded
            => /\ chain.status = "raised" /\ chain.error = "AssertionError"
               /\ at \in DOMAIN names
               /\ ~IsPropertyOf(data, names[at])
               /\ \A i \in 1..(at - 1) : IsPropertyOf(data, names[i])

\* A list whose first name is a property and whose second is not: the scan
\* raised at the second.
C25_Witness ==
  /\ Ran("toHaveProperties")
  /\ chain.lastCheck.args[1] = <<"id", "missing">>
  /\ chain.lastCheck.at = 2
  /\ chain.status = "raised"

\* C26: toRespondWithin(maxTime) returns the engine for every maxTime when
\* responseTime is undefined, and otherwise succeeds iff responseTime is
\* below maxTime.
C26_RespondWithin ==
  Ran("toRespondWithin") =>
    LET maxTime == chain.lastCheck.args[1]
        responseTime == chain.given.responseTime
    IN /\ responseTime.t = "undefined" => Succeeded
       /\ responseTime.t = "number" => (Succeeded <=> responseTime.num < maxTime)

\* A response without timing data passed the check after another check.
C26_Witness ==
  /\ Ran("toRespondWithin")
  /\ chain.given.responseTime.t = "undefined"
  /\ chain.lastCheck.outcome = "ok"
  /\ chain.steps >= 2

(***************************************************************************)
(* Two concurrent retryWithBackoff calls (C27)                             *)
(***************************************************************************)
\* What a call that runs alone shows: its events alternate invocation and
\* wait, every invocation but the last failed, the i-th wait is
\* initialDelay * 2^(i-1), and the attempt counter is the number of the
\* invocation made or awaited.
AsIfAlone(c) ==
  LET r == retry[c]
      inv == Invocations(c)
      w == Waits(c)
  IN r.pc # "idle" =>
       /\ Len(inv) = 0 \/ Len(inv) <= r.maxAttempts
       /\ AllFailed(inv, Len(inv) - 1)
       /\ \A i \in DOMAIN r.events :
            r.events[i].kind = IF i % 2 = 1 THEN "invoke" ELSE "wait"
       /\ \A i \in DOMAIN w : w[i].val = r.initialDelay * Pow2(i - 1)
       /\ r.pc = "fn" => r.attempt = Len(inv) + 1 /\ Len(w) = Len(inv)
       /\ r.pc = "delay" => r.attempt = Len(inv) /\ Len(w) = Len(inv)
       /\ r.pc = "rejected" => Len(inv) = r.maxAttempts /\ Len(w) = Len(inv) - 1
       /\ (r.pc = "resolved" /\ r.result.kind = "value")
            => Len(w) = Len(inv) - 1 /\ inv[Len(inv)].ok

\* A call suspended in its delay or in fn does not keep the other from
\* starting, from having its fn settle, or from having its timer fire.
OtherCanRun ==
  \A c \in RetryCalls : \A o \in RetryCalls \ {c} :
    retry[c].pc \in {"delay", "fn"} =>
      /\ retry[o].pc = "idle" => ENABLED (\E a \in RetryArgs : retryWithBackoff(o, a))
      /\ retry[o].pc = "fn" => ENABLED (\E v \in Values : FnSucceeds(o, v))
      /\ retry[o].pc = "delay" => ENABLED delay(o)

\* A step changes one call only.
OneCallSteps ==
  \E c \in RetryCalls : \A o \in RetryCalls \ {c} : retry'[o] = retry[o]

\* C27: while a call is suspended the other call can run, and under every
\* interleaving each call has its own attempt counter, its own invocations
\* and the delay sequence it would have alone.
C27_CallsInterleaveIndependently ==
  [](OtherCanRun /\ \A c \in RetryCalls : AsIfAlone(c)) /\ [][OneCallSteps]_vars

\* Call 1 is suspended in its second delay while call 2, started after it,
\* is suspended in its first.
C27_Witness ==
  /\ retry[1].pc = "delay" /\ retry[1].attempt = 2
  /\ retry[2].pc = "delay" /\ retry[2].attempt = 1
  /\ retry[1].initialDelay # retry[2].initialDelay

(***************************************************************************)
(* Termination of retryWithBackoff (C28)                                   *)
(***************************************************************************)
\* With maxAttempts < 1 the call has resolved with undefined and nothing was
\* invoked or waited for; with maxAttempts >= 1 there are at most maxAttempts
\* invocations and maxAttempts - 1 waits, and a call that has ended ended on
\* an invocation.
AttemptsBounded ==
  LET r == retry[1]
      inv == Invocations(1)
      w == Waits(1)
  IN r.pc # "idle" =>
       /\ r.maxAttempts < 1
            => /\ r.pc = "resolved" /\ r.result = [kind |-> "undefined"]
               /\ r.events = <<>>
       /\ r.maxAttempts >= 1
            => /\ Len(inv) <= r.maxAttempts
               /\ Len(w) <= r.maxAttempts - 1
               /\ Terminated(1) => r.events[Len(r.events)].kind = "invoke"

\* C28: a call with maxAttempts < 1 never invokes fn, never waits and
\* resolves with undefined; a call with maxAttempts >= 1 makes at most
\* maxAttempts invocations and maxAttempts - 1 waits, none after the last
\* invocation, and every call ends.
C28_BoundedAndTerminates ==
  []AttemptsBounded /\ ((retry[1].pc # "idle") ~> Terminated(1))

\* A call with maxAttempts below 1 has resolved with undefined.
C28_Witness ==
  /\ retry[1].maxAttempts < 1
  /\ retry[1].pc = "resolved"
  /\ retry[1].result = [kind |-> "undefined"]

(***************************************************************************)
(* Transparency of the logging hooks (C29)                                 *)
(***************************************************************************)
\* C29: the call whose transport has just answered settled as the transport
\* did: fulfilled with the very response, whatever its data, or rejected with
\* the very error.
C29_HooksTransparent ==
  lastOp.op = "transport" =>
    LET outcome == lastOp.arg.outcome
    IN \E s \in settled :
         /\ s.id = lastOp.arg.request.id
         /\ s.state = IF outcome.kind = "response" THEN "fulfilled" ELSE "rejected"
         /\ s.value = outcome

(***************************************************************************)
(* Independence of the resolved configurations (C30)                       *)
(***************************************************************************)
\* C30: the base config object stays as written, whatever is called and
\* whatever a caller assigns to a field of a configuration it was returned
\* (top-level, headers or retry), and a configuration just returned is what
\* the call gives on the untouched base config.
C30_ResultsIndependent ==
  /\ config = SourceConfig
  /\ (resolved.called /\ ~resolved.mutated)
       => resolved.result = getEnvironmentConfig(SourceConfig, resolved.args)

====
